---- MODULE Spec2Model ----
(***************************************************************************)
(* fix_syntax.py: read messageProcessor.js into a list of lines, turn the  *)
(* indented duplicate declarations `const userLanguage =` and              *)
(* `const mainMenu =` into assignments, write the list back over the same   *)
(* file and print a confirmation.                                          *)
(*                                                                         *)
(* A line is a sequence of one-character strings, the file a sequence of   *)
(* lines.  Every step at which the interpreter can raise (the two opens,   *)
(* readlines, writelines) has a failing twin; nothing in the script        *)
(* catches an exception, so a failure ends the run.                        *)
(***************************************************************************)
EXTENDS Integers, Sequences, FiniteSets

\* ------------------------------------------------------------ bounds
MaxLines  == 2   \* lines in a multi-line input file
MaxChunks == 3   \* chunks after the indentation of a one-line input file
MaxIndent == 4   \* leading spaces of a line of a one-line input file
MaxRuns   == 2   \* consecutive runs of the script

\* ------------------------------------------------------------ literals
\* 'const userLanguage =' and 'userLanguage =' (line 9)
Target1 == <<"c", "o", "n", "s", "t", " ", "u", "s", "e", "r", "L", "a", "n", "g", "u", "a", "g", "e", " ", "=">>
Repl1 == <<"u", "s", "e", "r", "L", "a", "n", "g", "u", "a", "g", "e", " ", "=">>
\* 'const mainMenu =' and 'mainMenu =' (line 11)
Target2 == <<"c", "o", "n", "s", "t", " ", "m", "a", "i", "n", "M", "e", "n", "u", " ", "=">>
Repl2 == <<"m", "a", "i", "n", "M", "e", "n", "u", " ", "=">>
\* '    ' (lines 8 and 10)
FourSpaces == <<" ", " ", " ", " ">>
\* the 4 of lines[i][:4]
PrefixLen == 4

\* ------------------------------------------------------------ str operations
Min(a, b) == IF a < b THEN a ELSE b

\* s[:n]
Slice(s, n) == SubSeq(s, 1, Min(n, Len(s)))

\* s[n:]
Drop(s, n) == SubSeq(s, n + 1, Len(s))

\* s.startswith(p)
StartsWith(s, p) == Len(s) >= Len(p) /\ SubSeq(s, 1, Len(p)) = p

\* sub in s
Contains(s, sub) == \E j \in 1..(Len(s) - Len(sub) + 1) : SubSeq(s, j, j + Len(sub) - 1) = sub

\* s.replace(old, new, 1): only the leftmost occurrence
RECURSIVE ReplaceFirst(_, _, _)
ReplaceFirst(s, old, new) ==
    IF s = <<>> THEN <<>>
    ELSE IF StartsWith(s, old) THEN new \o Drop(s, Len(old))
    ELSE <<Head(s)>> \o ReplaceFirst(Tail(s), old, new)

\* s.replace(old, new): every non-overlapping occurrence, leftmost first
RECURSIVE Replace(_, _, _)
Replace(s, old, new) ==
    IF s = <<>> THEN <<>>
    ELSE IF StartsWith(s, old) THEN new \o Replace(Drop(s, Len(old)), old, new)
    ELSE <<Head(s)>> \o Replace(Tail(s), old, new)

\* ------------------------------------------------------------ the rewrite
\* ' ' in line[:4]: some space among the first four characters
IndentOk_AnySpace(line) == Contains(Slice(line, PrefixLen), <<" ">>)

\* '    ' in line[:4]
IndentOk(line) == Contains(Slice(line, PrefixLen), FourSpaces)

\* one `if` of the loop body: test, then replace
ApplyRule(line, old, new) ==
    IF Contains(line, old) /\ IndentOk(line) THEN Replace(line, old, new) ELSE line

\* the rewrite without the indentation test
RewriteLine_NoGate(line) == Replace(Replace(line, Target1, Repl1), Target2, Repl2)

\* the rewrite stripping every `const ` of an indented line
RewriteLine_AnyConst(line) ==
    IF IndentOk(line) THEN Replace(line, SubSeq(Target1, 1, 6), <<>>) ELSE line

\* the second `if` written as `elif`
RewriteLine_Elif(line) ==
    IF Contains(line, Target1) /\ IndentOk(line) THEN Replace(line, Target1, Repl1)
    ELSE ApplyRule(line, Target2, Repl2)

\* the loop body for one line: the two `if`s, the second on the result of the first
RewriteLine(line) == ApplyRule(ApplyRule(line, Target1, Repl1), Target2, Repl2)

\* ------------------------------------------------------------ input files
NL == <<"\n">>
Filler == <<" ", "x", ";">>
ConstKw == SubSeq(Target1, 1, 6)

Spaces(n) == [k \in 1..n |-> " "]

Chunks == {ConstKw, Target1, Target2, Repl1, Filler}

RECURSIVE Bodies(_)
Bodies(n) ==
    IF n = 0 THEN {<<>>}
    ELSE Bodies(n - 1) \cup {b \o c : b \in Bodies(n - 1), c \in Chunks}

\* every line: optional leading "x", indentation, chunks, newline
AllLines ==
    {lead \o Spaces(n) \o b \o NL :
        lead \in {<<>>, <<"x">>}, n \in 0..MaxIndent, b \in Bodies(MaxChunks)}

\* the lines multi-line files are made of
FileLines ==
    { FourSpaces \o Target1 \o Filler \o NL,
      FourSpaces \o Target2 \o Target1 \o NL,
      FourSpaces \o ConstKw \o Target2 \o NL,
      FourSpaces \o Filler \o NL,
      Target1 \o Filler \o NL,
      <<" ">> \o Target2 \o NL }

RECURSIVE FilesOf(_, _)
FilesOf(L, n) ==
    IF n = 0 THEN {<<>>}
    ELSE FilesOf(L, n - 1) \cup {Append(f, l) : f \in FilesOf(L, n - 1), l \in L}

InputFiles == FilesOf(FileLines, MaxLines) \cup {<<l>> : l \in AllLines}

\* ------------------------------------------------------------ state
VARIABLES
    disk,     \* content of messageProcessor.js, a sequence of lines
    lines,    \* the list `lines`
    i,        \* the loop variable, 0-based
    written,  \* lines handed to the file by writelines so far
    pc,       \* position in the script
    printed,  \* confirmation lines printed by this run
    failed,   \* "none", or the phase whose exception ended the run
    run,      \* number of the current run
    input,    \* content of the file when the current run started
    orig      \* content of the file before the first run

vars == <<disk, lines, i, written, pc, printed, failed, run, input, orig>>

Init ==
    /\ disk \in InputFiles
    /\ lines = <<>>
    /\ i = 0
    /\ written = 0
    /\ pc = "open_r"
    /\ printed = 0
    /\ failed = "none"
    /\ run = 1
    /\ input = disk
    /\ orig = disk

\* an uncaught exception: the interpreter prints a traceback and exits
Raise(phase) ==
    /\ pc' = "crashed"
    /\ failed' = phase

\* ------------------------------------------------------------ read phase
\* line 3: open(path, 'r') succeeds
OpenR ==
    /\ pc = "open_r"
    /\ pc' = "readlines"
    /\ UNCHANGED <<disk, lines, i, written, printed, failed, run, input, orig>>

\* line 3: open(path, 'r') raises (no such file, no permission)
OpenRFail ==
    /\ pc = "open_r"
    /\ Raise("read")
    /\ UNCHANGED <<disk, lines, i, written, printed, run, input, orig>>

\* line 4: lines = f.readlines(), then the with block closes f
ReadLines ==
    /\ pc = "readlines"
    /\ lines' = disk
    /\ i' = 0
    /\ pc' = "loop"
    /\ UNCHANGED <<disk, written, printed, failed, run, input, orig>>

\* line 4 with the exception swallowed: carry on with no lines
ReadLinesFail_Swallowed ==
    /\ pc = "readlines"
    /\ lines' = <<>>
    /\ i' = 0
    /\ pc' = "loop"
    /\ failed' = "read"
    /\ UNCHANGED <<disk, written, printed, run, input, orig>>

\* line 4: readlines raises (I/O or decoding error)
ReadLinesFail ==
    /\ pc = "readlines"
    /\ Raise("read")
    /\ UNCHANGED <<disk, lines, i, written, printed, run, input, orig>>

\* ------------------------------------------------------------ transform
\* the loop body dropping a matching line instead of rewriting it
LoopBody_Remove ==
    /\ pc = "loop"
    /\ i < Len(lines)
    /\ IF RewriteLine(lines[i + 1]) # lines[i + 1]
       THEN /\ lines' = SubSeq(lines, 1, i) \o SubSeq(lines, i + 2, Len(lines))
            /\ i' = i
       ELSE /\ lines' = lines
            /\ i' = i + 1
    /\ UNCHANGED <<disk, written, pc, printed, failed, run, input, orig>>

\* lines 7-11: one iteration, lines[i] overwritten in place
LoopBody ==
    /\ pc = "loop"
    /\ i < Len(lines)
    /\ lines' = [lines EXCEPT ![i + 1] = RewriteLine(lines[i + 1])]
    /\ i' = i + 1
    /\ UNCHANGED <<disk, written, pc, printed, failed, run, input, orig>>

\* line 7: range(len(lines)) exhausted
LoopExit ==
    /\ pc = "loop"
    /\ i = Len(lines)
    /\ pc' = "open_w"
    /\ UNCHANGED <<disk, lines, i, written, printed, failed, run, input, orig>>

\* ------------------------------------------------------------ write phase
\* open(path, 'a'): no truncation
OpenW_Append ==
    /\ pc = "open_w"
    /\ written' = 0
    /\ pc' = "writelines"
    /\ UNCHANGED <<disk, lines, i, printed, failed, run, input, orig>>

\* line 13: open(path, 'w') succeeds and truncates the file
OpenW ==
    /\ pc = "open_w"
    /\ disk' = <<>>
    /\ written' = 0
    /\ pc' = "writelines"
    /\ UNCHANGED <<lines, i, printed, failed, run, input, orig>>

\* line 13 with the exception swallowed: go on to the print
OpenWFail_Swallowed ==
    /\ pc = "open_w"
    /\ pc' = "print"
    /\ failed' = "write"
    /\ UNCHANGED <<disk, lines, i, written, printed, run, input, orig>>

\* line 13: open(path, 'w') raises (no permission): the file is not touched
OpenWFail ==
    /\ pc = "open_w"
    /\ Raise("open_w")
    /\ UNCHANGED <<disk, lines, i, written, printed, run, input, orig>>

\* line 14: writelines, one line reaching the file
WriteLine ==
    /\ pc = "writelines"
    /\ written < Len(lines)
    /\ disk' = Append(disk, lines[written + 1])
    /\ written' = written + 1
    /\ UNCHANGED <<lines, i, pc, printed, failed, run, input, orig>>

\* line 14: the write, or the flush on close, raises (disk full, I/O error)
WriteFail ==
    /\ pc = "writelines"
    /\ Raise("write")
    /\ UNCHANGED <<disk, lines, i, written, printed, run, input, orig>>

\* line 14: all lines written, the with block closes f
CloseW ==
    /\ pc = "writelines"
    /\ written = Len(lines)
    /\ pc' = "print"
    /\ UNCHANGED <<disk, lines, i, written, printed, failed, run, input, orig>>

\* line 16: print("Fixed duplicate const declarations"), end of script
Confirm ==
    /\ pc = "print"
    /\ printed' = printed + 1
    /\ pc' = "done"
    /\ UNCHANGED <<disk, lines, i, written, failed, run, input, orig>>

\* the script is started again on the file the previous run left
Rerun ==
    /\ pc = "done"
    /\ run < MaxRuns
    /\ run' = run + 1
    /\ input' = disk
    /\ lines' = <<>>
    /\ i' = 0
    /\ written' = 0
    /\ printed' = 0
    /\ failed' = "none"
    /\ pc' = "open_r"
    /\ UNCHANGED <<disk, orig>>

Next ==
    \/ OpenR
    \/ OpenRFail
    \/ ReadLines
    \/ ReadLinesFail
    \/ LoopBody
    \/ LoopExit
    \/ OpenW
    \/ OpenWFail
    \/ WriteLine
    \/ WriteFail
    \/ CloseW
    \/ Confirm
    \/ Rerun

Spec == Init /\ [][Next]_vars

TypeOK ==
    /\ pc \in {"open_r", "readlines", "loop", "open_w", "writelines", "print", "done", "crashed"}
    /\ failed \in {"none", "read", "open_w", "write"}
    /\ i \in 0..Len(lines)
    /\ written \in 0..Len(lines)
    /\ run \in 1..MaxRuns

\* ------------------------------------------------------------ vocabulary of the properties
Done == pc = "done"

HasTarget(line) == Contains(line, Target1) \/ Contains(line, Target2)

\* the line begins with four space characters
FourSpaceIndented(line) == Len(line) >= 4 /\ \A j \in 1..4 : line[j] = " "

\* at least one of the first four characters is a space
SpaceInPrefix(line) == \E j \in 1..Min(4, Len(line)) : line[j] = " "

\* positions at which an occurrence of t starts
Occ(line, t) == {j \in 1..Len(line) : j + Len(t) - 1 <= Len(line) /\ SubSeq(line, j, j + Len(t) - 1) = t}

TargetStarts(line) == Occ(line, Target1) \cup Occ(line, Target2)

\* positions of the keyword `const ` in front of every occurrence of a target
KeywordAt(line) == UNION {j..(j + 5) : j \in TargetStarts(line)}

\* the line with those positions deleted
DropConst(line) ==
    LET keep == (1..Len(line)) \ KeywordAt(line)
        nth(k) == CHOOSE j \in keep : Cardinality({m \in keep : m <= j}) = k
    IN  [k \in 1..Cardinality(keep) |-> line[nth(k)]]

\* the line with only the leftmost occurrence of each target replaced
FirstOnly(line) == ReplaceFirst(ReplaceFirst(line, Target1, Repl1), Target2, Repl2)

\* no indented line has `const ` directly in front of a target
NoStackedConst(file) ==
    \A k \in 1..Len(file) :
        FourSpaceIndented(file[k]) =>
            /\ ~Contains(file[k], ConstKw \o Target1)
            /\ ~Contains(file[k], ConstKw \o Target2)

\* ------------------------------------------------------------ C1
\* C1: the list keeps the length of the file that was read through the loop and
\* the write, and the file written back has as many lines as the file read.
C1_LineCount ==
    /\ pc \in {"loop", "open_w", "writelines", "print", "done"} => Len(lines) = Len(input)
    /\ pc \in {"print", "done"} => Len(disk) = Len(input)

C1_Witness == Done /\ Len(input) >= 2 /\ Len(disk) = Len(input) /\ disk # input

\* ------------------------------------------------------------ C2
\* C2 as stated: a line that contains a target and passes the indentation test
\* comes out with only the first occurrence of the target replaced.
C2_FirstOccurrenceOnly ==
    Done => \A k \in 1..Len(input) :
        (HasTarget(input[k]) /\ FourSpaceIndented(input[k])) => disk[k] = FirstOnly(input[k])

\* C2 amended: such a line comes out with every occurrence of each target
\* replaced, i.e. with the `const ` in front of every occurrence deleted.
C2_EveryOccurrence ==
    Done => \A k \in 1..Len(input) :
        (HasTarget(input[k]) /\ FourSpaceIndented(input[k])) => disk[k] = DropConst(input[k])

C2_Witness ==
    Done /\ \E k \in 1..Len(input) :
        /\ FourSpaceIndented(input[k])
        /\ Cardinality(Occ(input[k], Target1)) >= 2
        /\ disk[k] = DropConst(input[k])
        /\ disk[k] # FirstOnly(input[k])

\* ------------------------------------------------------------ C3
\* C3 as stated: a line that contains a target and has a space among its first
\* four characters is rewritten.
C3_AnySpaceRewritten ==
    Done => \A k \in 1..Len(input) :
        (HasTarget(input[k]) /\ SpaceInPrefix(input[k])) => disk[k] # input[k]

\* C3 amended: of the lines that contain a target and have a space among their
\* first four characters, exactly those whose first four characters are all
\* spaces are rewritten; the others are written back unchanged.
C3_FourSpacesRewritten ==
    Done => \A k \in 1..Len(input) :
        (HasTarget(input[k]) /\ SpaceInPrefix(input[k])) =>
            (disk[k] # input[k] <=> FourSpaceIndented(input[k]))

C3_Witness ==
    Done /\ \E k, m \in 1..Len(input) :
        /\ HasTarget(input[k]) /\ FourSpaceIndented(input[k]) /\ disk[k] # input[k]
        /\ HasTarget(input[m]) /\ SpaceInPrefix(input[m]) /\ ~FourSpaceIndented(input[m])
        /\ disk[m] = input[m]

\* ------------------------------------------------------------ C4
\* C4 as stated: a second run on the output of a first run changes nothing.
C4_Idempotent == (Done /\ run >= 2) => disk = input

\* C4 amended: a second run changes nothing provided no four-space-indented
\* line of the original file has `const ` directly in front of a target.
C4_IdempotentUnstacked == (Done /\ run >= 2 /\ NoStackedConst(orig)) => disk = input

C4_Witness ==
    /\ Done /\ run >= 2 /\ NoStackedConst(orig)
    /\ input # orig
    /\ disk = input

\* ------------------------------------------------------------ C5
\* C5: a line containing neither target is written back as it was read,
\* whatever its indentation and whatever the other lines are.
C5_OtherLinesKept ==
    Done => \A k \in 1..Len(input) : ~HasTarget(input[k]) => disk[k] = input[k]

C5_Witness ==
    Done /\ \E k, m \in 1..Len(input) :
        /\ ~HasTarget(input[k]) /\ FourSpaceIndented(input[k]) /\ disk[k] = input[k]
        /\ disk[m] # input[m]

\* ------------------------------------------------------------ C6
\* C6: a line that contains a target but does not begin with four spaces is
\* written back unchanged.
C6_Gate ==
    Done => \A k \in 1..Len(input) :
        (HasTarget(input[k]) /\ ~FourSpaceIndented(input[k])) => disk[k] = input[k]

C6_Witness ==
    Done /\ \E k \in 1..Len(input) : StartsWith(input[k], Target1) /\ disk[k] = input[k]

\* ------------------------------------------------------------ C7
\* C7: a failure of the read phase ends the run with the file as it was, and
\* the write phase is only ever entered with the whole file read and no failure.
C7_ReadFailure ==
    /\ failed = "read" => (pc = "crashed" /\ disk = input /\ written = 0)
    /\ pc \in {"open_w", "writelines", "print", "done"} =>
          (failed = "none" /\ Len(lines) = Len(input))
    /\ disk # input => pc \in {"writelines", "print", "done", "crashed"}

C7_Witness == failed = "read" /\ pc = "crashed" /\ Len(input) >= 1 /\ disk = input

\* ------------------------------------------------------------ C8
\* C8: the confirmation has been printed exactly once when the run is done,
\* by then every line is written; in every other state of a run, a crashed
\* one included, it has not been printed.
C8_Confirmation ==
    /\ Done => (printed = 1 /\ failed = "none" /\ written = Len(lines) /\ disk = lines)
    /\ ~Done => printed = 0

C8_Witness == Done /\ printed = 1 /\ disk = lines /\ disk # input

C10_AlteredIff ==
    Done =>
        /\ \A k \in 1..Len(input) :
              /\ disk[k] # input[k] <=> (FourSpaceIndented(input[k]) /\ HasTarget(input[k]))
              /\ FourSpaceIndented(input[k]) =>
                    Len(disk[k]) = Len(input[k]) - 6 * Cardinality(TargetStarts(input[k]))
        /\ Cardinality({k \in 1..Len(input) : disk[k] # input[k]})
              = Cardinality({k \in 1..Len(input) :
                                FourSpaceIndented(input[k]) /\ HasTarget(input[k])})

C10_Witness ==
    Done /\ \E k \in 1..Len(input) :
        /\ FourSpaceIndented(input[k])
        /\ Contains(input[k], Target1) /\ Contains(input[k], Target2)
        /\ ~Contains(disk[k], Target1) /\ ~Contains(disk[k], Target2)
====
